---- MODULE Spec2Model ----
EXTENDS Integers, Naturals, Sequences, FiniteSets, TLC

(***************************************************************************)
(* DatabaseHelper (src/unnamed/part_000).                                  *)
(* Part A: the pure digest aggregator _aggregateNotifications.             *)
(***************************************************************************)

\* Bound: length of the notification list handed to the aggregator.
MaxLen == 4

\* Post ids. Ids in IntLikePosts stand for ids whose string form is a
\* canonical array index ("1", "2"); the others stand for non-index
\* strings such as ObjectId hex strings.
Posts == {1, 2, 3, 4}
IntLikePosts == {1, 2}

\* NotificationAction values.
Actions == {"comment", "like", "share"}
COMMENT == "comment"

\* Notifications of the input list: post id, action, createdAt. The
\* createdAt of non-comment notifications is never read by the code.
Elems == [post : Posts, action : {"comment"}, createdAt : {1, 2}]
         \cup [post : Posts, action : {"like", "share"}, createdAt : {1}]

NewGroup(n) == [latest |-> 0, post |-> n.post,
                counts |-> [comment |-> 0, like |-> 0, share |-> 0, total |-> 0]]

\* Mutant: total only counted for comments.
AggStep_NoTotal(ns, acc, i) ==
  LET n    == ns[i]
      pid  == n.post
      acc1 == IF pid \in DOMAIN acc.g THEN acc
              ELSE [keys |-> Append(acc.keys, pid),
                    g    |-> [k \in DOMAIN acc.g \cup {pid} |->
                                IF k = pid THEN NewGroup(n) ELSE acc.g[k]]]
      grp  == acc1.g[pid]
      cnt  == [grp.counts EXCEPT ![n.action] = @ + 1, !.total = IF n.action = COMMENT THEN @ + 1 ELSE @]
      lat  == IF n.action # COMMENT THEN grp.latest
              ELSE IF grp.latest = 0 THEN i
              ELSE IF ns[grp.latest].createdAt < n.createdAt THEN i
              ELSE grp.latest
  IN [keys |-> acc1.keys,
      g    |-> [acc1.g EXCEPT ![pid] = [grp EXCEPT !.counts = cnt, !.latest = lat]]]

\* Mutant: <= in the latest comparison.
AggStep_LatestLe(ns, acc, i) ==
  LET n    == ns[i]
      pid  == n.post
      acc1 == IF pid \in DOMAIN acc.g THEN acc
              ELSE [keys |-> Append(acc.keys, pid),
                    g    |-> [k \in DOMAIN acc.g \cup {pid} |->
                                IF k = pid THEN NewGroup(n) ELSE acc.g[k]]]
      grp  == acc1.g[pid]
      cnt  == [grp.counts EXCEPT ![n.action] = @ + 1, !.total = @ + 1]
      lat  == IF n.action # COMMENT THEN grp.latest
              ELSE IF grp.latest = 0 THEN i
              ELSE IF ns[grp.latest].createdAt <= n.createdAt THEN i
              ELSE grp.latest
  IN [keys |-> acc1.keys,
      g    |-> [acc1.g EXCEPT ![pid] = [grp EXCEPT !.counts = cnt, !.latest = lat]]]

\* One iteration of the for-loop over notifications (lines 247-277);
\* acc.keys is the insertion order of keys, acc.g the keyed object,
\* latest is the list position of the latest comment (0 = null).
AggStep(ns, acc, i) ==
  LET n    == ns[i]
      pid  == n.post
      acc1 == IF pid \in DOMAIN acc.g THEN acc
              ELSE [keys |-> Append(acc.keys, pid),
                    g    |-> [k \in DOMAIN acc.g \cup {pid} |->
                                IF k = pid THEN NewGroup(n) ELSE acc.g[k]]]
      grp  == acc1.g[pid]
      cnt  == [grp.counts EXCEPT ![n.action] = @ + 1, !.total = @ + 1]
      lat  == IF n.action # COMMENT THEN grp.latest
              ELSE IF grp.latest = 0 THEN i
              ELSE IF ns[grp.latest].createdAt < n.createdAt THEN i
              ELSE grp.latest
  IN [keys |-> acc1.keys,
      g    |-> [acc1.g EXCEPT ![pid] = [grp EXCEPT !.counts = cnt, !.latest = lat]]]

RECURSIVE AggLoop(_, _, _)
AggLoop(ns, i, acc) ==
  IF i > Len(ns) THEN acc ELSE AggLoop(ns, i + 1, AggStep(ns, acc, i))

RECURSIVE InsertAsc(_, _)
InsertAsc(x, s) ==
  IF s = <<>> THEN <<x>>
  ELSE IF x < Head(s) THEN <<x>> \o s
  ELSE <<Head(s)>> \o InsertAsc(x, Tail(s))

RECURSIVE SortAsc(_)
SortAsc(s) == IF s = <<>> THEN <<>> ELSE InsertAsc(Head(s), SortAsc(Tail(s)))

\* Mutant: plain insertion order for every key.
ObjectKeys_Insertion(keys) == keys

\* Own enumerable string keys of an object, as Object.values visits them:
\* array-index keys first in ascending numeric order, then the other keys
\* in insertion order.
IsIntLike(k) == k \in IntLikePosts
IsNotIntLike(k) == k \notin IntLikePosts
ObjectKeys(keys) == SortAsc(SelectSeq(keys, IsIntLike)) \o SelectSeq(keys, IsNotIntLike)

\* Mutant: ascending comparator.
Cmp_Ascending(a, b) == a.counts.total - b.counts.total

\* Comparator (a, b) => b.counts.total - a.counts.total
Cmp(a, b) == b.counts.total - a.counts.total

\* Stable sort (Array.prototype.sort): an element goes after every element
\* it does not compare below.
RECURSIVE InsertSorted(_, _)
InsertSorted(x, s) ==
  IF s = <<>> THEN <<x>>
  ELSE IF Cmp(x, Head(s)) < 0 THEN <<x>> \o s
  ELSE <<Head(s)>> \o InsertSorted(x, Tail(s))

RECURSIVE SortGroups(_)
SortGroups(s) ==
  IF s = <<>> THEN <<>>
  ELSE LET r == SortGroups(SubSeq(s, 1, Len(s) - 1))
       IN InsertSorted(s[Len(s)], r)

TopN == 3

Slice(s, n) == SubSeq(s, 1, IF Len(s) < n THEN Len(s) ELSE n)

\* Mutant: the list is cut to three groups before it is sorted.
AggregateNotifications_SliceFirst(ns) ==
  LET acc  == AggLoop(ns, 1, [keys |-> <<>>, g |-> [k \in {} |-> 0]])
      ks   == ObjectKeys(acc.keys)
      vals == [i \in 1..Len(ks) |-> acc.g[ks[i]]]
  IN SortGroups(Slice(vals, TopN))

\* _aggregateNotifications(notifications)
AggregateNotifications(ns) ==
  LET acc  == AggLoop(ns, 1, [keys |-> <<>>, g |-> [k \in {} |-> 0]])
      ks   == ObjectKeys(acc.keys)
      vals == [i \in 1..Len(ks) |-> acc.g[ks[i]]]
  IN Slice(SortGroups(vals), TopN)

(***************************************************************************)
(* Part B: findNotifications / _findInstantNotifications /                 *)
(* _findDigestNotifications / setEmailSentAt over the notifications        *)
(* collection. Each call is split at its await points: the cutoff read     *)
(* (Start), the query reading one document per step (QueryDoc, QueryEnd),  *)
(* the updateMany writing one document per step (UpdateDoc), and the       *)
(* resumption that returns (Return).                                       *)
(***************************************************************************)

NotifIds == {1, 2}
Users == {"u1", "u2"}
Procs == {"p1", "p2"}

\* EmailFrequency values; "monthly" stands for any unrecognised value.
INSTANT == "instant"
DigestFreqs == {"daily", "weekly", "biweekly"}
ValidFreqs == {INSTANT} \cup DigestFreqs
Freqs == ValidFreqs \cup {"monthly"}

\* Bound: the configured instantUnreadLookbackInterval (time unit = 1).
InstantUnreadLookbackInterval == 1
\* Clock: starts at StartTime, never exceeds MaxTime.
StartTime == 2
MaxTime == 4
\* Bound: number of findNotifications calls started.
MaxCalls == 2

\* An emailSentAt.<f> slot. The code only ever tests a slot against null,
\* so a slot is kept as null or "a date was set".
Null == FALSE
Stamped == TRUE

VARIABLES
  notifs,      \* notification documents: receiver, createdAt, read (readAt # null)
  userExists,  \* users collection: which receiver ids have a user document
  now,         \* new Date()
  sent,        \* sent[n][f]: emailSentAt.<f> of notification n
  pc,          \* per caller: "idle", "started" (cutoff read) or "updating" (query done, updateMany issued)
  pend,        \* per caller: ids its updateMany has not yet written
  freq,        \* per caller: frequency argument of the running call
  sel,         \* per caller: notifications fetched by the query so far
  scan,        \* per caller: documents the query's cursor has not yet read
  retHist,     \* history: notifications returned so far, per tier
  dup,         \* history: a call returned a notification already returned for its tier
  overlap,     \* history: a call read a document another call of that tier had fetched and not yet stamped
  prevFreq,    \* history: frequency of the call completed before lastCall
  lastCall,    \* history: the last completed call
  start,       \* per caller: new Date() read when the call started (query cutoff)
  dPend,       \* direct setEmailSentAt call: ids not yet written
  dFreq,       \* direct setEmailSentAt call: its frequency, "none" when no call runs
  calls,       \* number of findNotifications calls started
  aggIn,       \* Part A: the list given to _aggregateNotifications
  aggOut,      \* Part A: its result
  nm,          \* Part C: participants' newMessages per thread
  hasMsg,      \* Part C: thread has at least one message
  stale,       \* Part C: participant's lastAccess < new Date() - instantUnreadLookbackInterval
  status,      \* Part C: participant's relationship status
  dmUserExists,\* Part C: user documents present
  prefs,       \* Part C: notifyPrefs of each user
  cursor,      \* Part C: thread ids the messages cursor has not yet yielded
  out,         \* Part C: messages array built so far
  dmStatus     \* Part C: "running", "done" or "error" (exception thrown)

dbVars == <<notifs, userExists, now, sent, pc, freq, sel, retHist, dup, overlap, prevFreq, lastCall, start, dPend, dFreq, pend, scan, calls>>
aggVars == <<aggIn, aggOut>>
dmVars == <<nm, hasMsg, stale, status, dmUserExists, prefs, cursor, out, dmStatus>>
vars == <<dbVars, aggVars, dmVars>>

\* intervalDays of _findDigestNotifications (undefined for other values).
IntervalDays(f) == CASE f = "daily" -> 1
                     [] f = "weekly" -> 7
                     [] f = "biweekly" -> 14

\* Mutant: the "emailSentAt.instant": null filter is dropped.
InstantMatch_NoSentFilter(n, t) ==
  /\ ~notifs[n].read
  /\ notifs[n].createdAt < t - InstantUnreadLookbackInterval
  /\ userExists[notifs[n].receiver]

\* $match + $lookup + $unwind of _findInstantNotifications for one
\* document: unread, no instant stamp, createdAt < t - lookback, receiver
\* user present; t is the new Date() read when the call started, the
\* document's fields are read when the cursor reaches it.
InstantMatch(n, t) ==
  /\ ~notifs[n].read
  /\ sent[n][INSTANT] = Null
  /\ notifs[n].createdAt < t - InstantUnreadLookbackInterval
  /\ userExists[notifs[n].receiver]

\* $match + $group + $lookup + $unwind of _findDigestNotifications for one
\* document and a known tier: no stamp for that tier, createdAt > t -
\* intervalDays (t read at call start), receiver user present.
DigestMatch(n, f, t) ==
  /\ sent[n][f] = Null
  /\ notifs[n].createdAt > t - IntervalDays(f)
  /\ userExists[notifs[n].receiver]

\* With an unrecognised frequency the lower bound is computed from an
\* undefined intervalDays; whether an unstamped document then matches is
\* not determined by this code (see FindNotificationsQueryDoc).
UndefinedMatch(n, f) ==
  sent[n][f] = Null /\ userExists[notifs[n].receiver]

\* Mutant: the update is never issued.
SetEmailSentAt_Forget(s, ids, f) == s

\* Mutant: the instant slot is stamped whatever the tier.
SetEmailSentAt_WrongTier(s, ids, f) ==
  [n \in NotifIds |-> IF n \in ids THEN [s[n] EXCEPT ![INSTANT] = Stamped] ELSE s[n]]

\* setEmailSentAt(ids, f): updateMany $set emailSentAt.<f> = new Date().
SetEmailSentAt(s, ids, f) ==
  [n \in NotifIds |-> IF n \in ids THEN [s[n] EXCEPT ![f] = Stamped] ELSE s[n]]

NoCall == [freq |-> "none", res |-> {}]

DbInit ==
  /\ notifs \in [NotifIds -> [receiver : Users, createdAt : 0..StartTime, read : BOOLEAN]]
  /\ userExists \in [Users -> BOOLEAN]
  /\ now = StartTime
  /\ sent = [n \in NotifIds |-> [f \in Freqs |-> Null]]
  /\ pc = [p \in Procs |-> "idle"]
  /\ freq = [p \in Procs |-> "none"]
  /\ sel = [p \in Procs |-> {}]
  /\ retHist = [f \in Freqs |-> {}]
  /\ dup = [f \in Freqs |-> FALSE]
  /\ overlap = [f \in Freqs |-> FALSE]
  /\ prevFreq = "none"
  /\ lastCall = NoCall
  /\ start = [p \in Procs |-> StartTime]
  /\ pend = [p \in Procs |-> {}]
  /\ scan = [p \in Procs |-> {}]
  /\ dPend = {}
  /\ dFreq = "none"
  /\ calls = 0

\* findNotifications(f) is called: the synchronous part up to the first
\* await reads new Date() for the query's cutoff.
FindNotificationsStart(p, f) ==
  /\ pc[p] = "idle"
  /\ calls < MaxCalls
  /\ calls' = calls + 1
  /\ pc' = [pc EXCEPT ![p] = "started"]
  /\ freq' = [freq EXCEPT ![p] = f]
  /\ start' = [start EXCEPT ![p] = now]
  /\ scan' = [scan EXCEPT ![p] = NotifIds]
  /\ sel' = [sel EXCEPT ![p] = {}]
  /\ UNCHANGED <<notifs, userExists, now, sent, retHist, dup, overlap, prevFreq, lastCall, pend, dPend, dFreq>>

\* The aggregate query's cursor reads one more document of the
\* notifications collection (documents are read one at a time, so other
\* callers' updates can land between two reads) and keeps it if it
\* matches. overlap records a read of a document that another caller of
\* the same tier has already fetched and not yet stamped.
FindNotificationsQueryDoc(p) ==
  LET f == freq[p] IN
  /\ pc[p] = "started"
  /\ \E n \in scan[p] :
       /\ scan' = [scan EXCEPT ![p] = @ \ {n}]
       /\ \E keep \in BOOLEAN :
            /\ \/ f = INSTANT /\ keep = InstantMatch(n, start[p])
               \/ f \in DigestFreqs /\ keep = DigestMatch(n, f, start[p])
               \/ f \notin ValidFreqs /\ (keep => UndefinedMatch(n, f))
            /\ sel' = [sel EXCEPT ![p] = IF keep THEN @ \cup {n} ELSE @]
            /\ overlap' = [overlap EXCEPT ![f] =
                              @ \/ (keep /\ \E q \in Procs \ {p} :
                                            freq[q] = f /\ n \in sel[q] /\ sent[n][f] = Null)]
  /\ UNCHANGED <<notifs, userExists, now, sent, pc, freq, retHist, dup, prevFreq, lastCall, start, pend, dPend, dFreq, calls>>

\* The cursor is exhausted (toArray() resolves / the cursor loop, which
\* for digest tiers runs _aggregateNotifications per receiver group and
\* collects processedNotificationIds, ends); setEmailSentAt issues its
\* updateMany over the fetched ids.
FindNotificationsQueryEnd(p) ==
  /\ pc[p] = "started"
  /\ scan[p] = {}
  /\ pc' = [pc EXCEPT ![p] = "updating"]
  /\ pend' = [pend EXCEPT ![p] = sel[p]]
  /\ UNCHANGED <<notifs, userExists, now, sent, freq, sel, retHist, dup, overlap, prevFreq, lastCall, start, scan, dPend, dFreq, calls>>

\* The updateMany writes one more matched document (MongoDB applies a
\* multi-document update one document at a time).
FindNotificationsUpdateDoc(p) ==
  /\ pc[p] = "updating"
  /\ \E n \in pend[p] :
       /\ sent' = SetEmailSentAt(sent, {n}, freq[p])
       /\ pend' = [pend EXCEPT ![p] = @ \ {n}]
  /\ UNCHANGED <<notifs, userExists, now, pc, freq, sel, retHist, dup, overlap, prevFreq, lastCall, start, scan, dPend, dFreq, calls>>

\* await this.setEmailSentAt(...) resumes after the update completed; the
\* call returns the fetched notifications (or digests).
FindNotificationsReturn(p) ==
  /\ pc[p] = "updating"
  /\ pend[p] = {}
  /\ pc' = [pc EXCEPT ![p] = "idle"]
  /\ retHist' = [retHist EXCEPT ![freq[p]] = @ \cup sel[p]]
  /\ dup' = [dup EXCEPT ![freq[p]] = @ \/ (sel[p] \cap retHist[freq[p]] # {})]
  /\ prevFreq' = lastCall.freq
  /\ lastCall' = [freq |-> freq[p], res |-> sel[p]]
  /\ freq' = [freq EXCEPT ![p] = "none"]
  /\ sel' = [sel EXCEPT ![p] = {}]
  /\ UNCHANGED <<notifs, userExists, now, sent, overlap, start, pend, scan, dPend, dFreq, calls>>

\* A direct call of the public method setEmailSentAt(ids, f) issues its
\* updateMany ...
SetEmailSentAtCall(ids, f) ==
  /\ dFreq = "none"
  /\ calls < MaxCalls
  /\ calls' = calls + 1
  /\ dPend' = ids
  /\ dFreq' = f
  /\ UNCHANGED <<notifs, userExists, now, sent, pc, freq, sel, retHist, dup, overlap, prevFreq, lastCall, start, pend, scan>>

\* ... which writes one matched document per step and resolves when all
\* are written.
SetEmailSentAtDoc ==
  /\ dFreq # "none"
  /\ IF dPend = {}
     THEN /\ dFreq' = "none"
          /\ UNCHANGED <<sent, dPend>>
     ELSE \E n \in dPend :
            /\ sent' = SetEmailSentAt(sent, {n}, dFreq)
            /\ dPend' = dPend \ {n}
            /\ UNCHANGED dFreq
  /\ UNCHANGED <<notifs, userExists, now, pc, freq, sel, retHist, dup, overlap, prevFreq, lastCall, start, pend, scan, calls>>

Tick ==
  /\ now < MaxTime
  /\ now' = now + 1
  /\ UNCHANGED <<notifs, userExists, sent, pc, freq, sel, retHist, dup, overlap, prevFreq, lastCall, start, pend, scan, dPend, dFreq, calls>>

(***************************************************************************)
(* Part C: findUnreadDirectMessages. The threads query and the messages    *)
(* aggregation are run first; the while loop over the messages cursor      *)
(* yields one thread per step, in an order the database chooses.           *)
(***************************************************************************)

ThreadIds == {1, 2}
DmUsers == {"u1", "u2", "u3"}
\* thread.participants ids: two-party threads.
Participants == [t \in ThreadIds |-> IF t = 1 THEN <<"u1", "u2">> ELSE <<"u2", "u3">>]
\* newMessages counts: the code only compares them with 0.
NewMessagesValues == {0, 1}
\* notifyPrefs: absent, instant.message true, instant.message false.
PrefValues == {"none", "on", "off"}
\* MessageThreadStatus values: one accepted-like value ("pending" is
\* treated exactly like "accepted" by the query) and one excluded value.
StatusValues == {"accepted", "blocked"}
MatchedStatuses == {"accepted", "pending"}

\* The threads $match (lines 36-50). Each condition is on the array field,
\* so it holds when some participant satisfies it.
ThreadMatches(t) ==
  /\ \E i \in 1..2 : nm[t][i] > 0
  /\ \E i \in 1..2 : stale[t][i]
  /\ \E i \in 1..2 : status[t][i] \in MatchedStatuses

\* Array.prototype.find over the two participants: index of the first
\* match, 0 when none (undefined).
SenderIdx(t) == IF nm[t][1] = 0 THEN 1 ELSE IF nm[t][2] = 0 THEN 2 ELSE 0

\* Mutant: receiver found with newMessages >= 0.
ReceiverIdx_NonNeg(t) == IF nm[t][1] >= 0 THEN 1 ELSE IF nm[t][2] >= 0 THEN 2 ELSE 0

ReceiverIdx(t) == IF nm[t][1] > 0 THEN 1 ELSE IF nm[t][2] > 0 THEN 2 ELSE 0

DmInit ==
  /\ nm \in [ThreadIds -> [1..2 -> NewMessagesValues]]
  /\ hasMsg \in [ThreadIds -> BOOLEAN]
  /\ stale \in [ThreadIds -> [1..2 -> BOOLEAN]]
  /\ status \in [ThreadIds -> [1..2 -> StatusValues]]
  /\ dmUserExists \in [DmUsers -> BOOLEAN]
  /\ prefs \in [DmUsers -> PrefValues]
  \* a missing user has no notifyPrefs
  /\ \A u \in DmUsers : ~dmUserExists[u] => prefs[u] = "none"
  /\ cursor = {t \in ThreadIds : ThreadMatches(t) /\ hasMsg[t]}
  /\ out = <<>>
  /\ dmStatus = "running"

\* One iteration of the while loop (lines 92-123).
DmLoopStep ==
  /\ dmStatus = "running"
  /\ \E t \in cursor :
       /\ cursor' = cursor \ {t}
       /\ LET si == SenderIdx(t)
              ri == ReceiverIdx(t)
          IN IF si = 0 \/ ri = 0
             THEN UNCHANGED <<out, dmStatus>>
             ELSE LET r == Participants[t][ri]
                  IN IF ~dmUserExists[r]
                     \* receiverUser is undefined: destructuring throws
                     THEN /\ dmStatus' = "error"
                          /\ UNCHANGED out
                     ELSE IF prefs[r] = "off"
                     THEN UNCHANGED <<out, dmStatus>>
                     ELSE /\ out' = Append(out, [thread |-> t,
                                                 sender |-> Participants[t][si],
                                                 receiver |-> r])
                          /\ UNCHANGED dmStatus
  /\ UNCHANGED <<nm, hasMsg, stale, status, dmUserExists, prefs>>

\* The cursor is exhausted: return messages.
DmReturn ==
  /\ dmStatus = "running"
  /\ cursor = {}
  /\ dmStatus' = "done"
  /\ UNCHANGED <<nm, hasMsg, stale, status, dmUserExists, prefs, cursor, out>>

(***************************************************************************)
(* Specifications.                                                         *)
(***************************************************************************)

AggInit ==
  /\ aggIn = <<>>
  /\ aggOut = AggregateNotifications(<<>>)

DbIdle ==
  /\ notifs = [n \in NotifIds |-> [receiver |-> "u1", createdAt |-> 0, read |-> FALSE]]
  /\ userExists = [u \in Users |-> TRUE]
  /\ now = StartTime
  /\ sent = [n \in NotifIds |-> [f \in Freqs |-> Null]]
  /\ pc = [p \in Procs |-> "idle"]
  /\ freq = [p \in Procs |-> "none"]
  /\ sel = [p \in Procs |-> {}]
  /\ retHist = [f \in Freqs |-> {}]
  /\ dup = [f \in Freqs |-> FALSE]
  /\ overlap = [f \in Freqs |-> FALSE]
  /\ prevFreq = "none"
  /\ lastCall = NoCall
  /\ start = [p \in Procs |-> StartTime]
  /\ pend = [p \in Procs |-> {}]
  /\ scan = [p \in Procs |-> {}]
  /\ dPend = {}
  /\ dFreq = "none"
  /\ calls = 0

DmIdle ==
  /\ nm = [t \in ThreadIds |-> <<0, 0>>]
  /\ hasMsg = [t \in ThreadIds |-> FALSE]
  /\ stale = [t \in ThreadIds |-> <<FALSE, FALSE>>]
  /\ status = [t \in ThreadIds |-> <<"accepted", "accepted">>]
  /\ dmUserExists = [u \in DmUsers |-> TRUE]
  /\ prefs = [u \in DmUsers |-> "none"]
  /\ cursor = {}
  /\ out = <<>>
  /\ dmStatus = "done"

\* findNotifications, concurrent callers (the instant tier and one digest
\* tier), and direct setEmailSentAt calls.
ConcFreqs == {INSTANT, "daily"}

\* A store whose notifications all go to one existing user.
ConcStore ==
  /\ notifs \in [NotifIds -> [receiver : {"u1"}, createdAt : 0..StartTime, read : BOOLEAN]]
  /\ userExists = [u \in Users |-> TRUE]

Init == DbInit /\ ConcStore /\ AggInit /\ DmIdle

Next ==
  \/ \E p \in Procs, f \in ConcFreqs : FindNotificationsStart(p, f) /\ UNCHANGED <<aggVars, dmVars>>
  \/ \E p \in Procs : FindNotificationsQueryDoc(p) /\ UNCHANGED <<aggVars, dmVars>>
  \/ \E p \in Procs : FindNotificationsQueryEnd(p) /\ UNCHANGED <<aggVars, dmVars>>
  \/ \E p \in Procs : FindNotificationsUpdateDoc(p) /\ UNCHANGED <<aggVars, dmVars>>
  \/ \E p \in Procs : FindNotificationsReturn(p) /\ UNCHANGED <<aggVars, dmVars>>
  \/ \E ids \in SUBSET NotifIds, f \in ConcFreqs : SetEmailSentAtCall(ids, f) /\ UNCHANGED <<aggVars, dmVars>>
  \/ SetEmailSentAtDoc /\ UNCHANGED <<aggVars, dmVars>>
  \/ Tick /\ UNCHANGED <<aggVars, dmVars>>

Spec == Init /\ [][Next]_vars

\* findNotifications, one caller, recognised frequencies.
SeqNext ==
  \/ \E f \in ValidFreqs : FindNotificationsStart("p1", f) /\ UNCHANGED <<aggVars, dmVars>>
  \/ FindNotificationsQueryDoc("p1") /\ UNCHANGED <<aggVars, dmVars>>
  \/ FindNotificationsQueryEnd("p1") /\ UNCHANGED <<aggVars, dmVars>>
  \/ FindNotificationsUpdateDoc("p1") /\ UNCHANGED <<aggVars, dmVars>>
  \/ FindNotificationsReturn("p1") /\ UNCHANGED <<aggVars, dmVars>>
  \/ Tick /\ UNCHANGED <<aggVars, dmVars>>

SeqInit == DbInit /\ AggInit /\ DmIdle

SeqSpec == SeqInit /\ [][SeqNext]_vars

\* findNotifications, one caller, any frequency value.
AnyFreqNext ==
  \/ \E f \in Freqs : FindNotificationsStart("p1", f) /\ UNCHANGED <<aggVars, dmVars>>
  \/ FindNotificationsQueryDoc("p1") /\ UNCHANGED <<aggVars, dmVars>>
  \/ FindNotificationsQueryEnd("p1") /\ UNCHANGED <<aggVars, dmVars>>
  \/ FindNotificationsUpdateDoc("p1") /\ UNCHANGED <<aggVars, dmVars>>
  \/ FindNotificationsReturn("p1") /\ UNCHANGED <<aggVars, dmVars>>
  \/ Tick /\ UNCHANGED <<aggVars, dmVars>>

AnyFreqSpec == SeqInit /\ [][AnyFreqNext]_vars


\* _aggregateNotifications applied to every list of at most MaxLen elements.
AggAppend ==
  /\ Len(aggIn) < MaxLen
  /\ \E e \in Elems :
       /\ aggIn' = Append(aggIn, e)
       /\ aggOut' = AggregateNotifications(aggIn')
  /\ UNCHANGED <<dbVars, dmVars>>

AggNext == AggAppend

AggSpecInit == DbIdle /\ AggInit /\ DmIdle

AggSpec == AggSpecInit /\ [][AggNext]_vars

\* Bound: length of the lists used for the ranking (top three) check.
MaxTopLen == 5

\* Like and share notifications: they carry only a post and a count.
TopElems == [post : Posts, action : {"like", "share"}, createdAt : {1}]

\* _aggregateNotifications applied to every list of at most MaxTopLen
\* like/share notifications.
TopAppend ==
  /\ Len(aggIn) < MaxTopLen
  /\ \E e \in TopElems :
       /\ aggIn' = Append(aggIn, e)
       /\ aggOut' = AggregateNotifications(aggIn')
  /\ UNCHANGED <<dbVars, dmVars>>

TopNext == TopAppend

TopSpec == AggSpecInit /\ [][TopNext]_vars

\* findUnreadDirectMessages.
DmNext ==
  \/ DmLoopStep /\ UNCHANGED <<dbVars, aggVars>>
  \/ DmReturn /\ UNCHANGED <<dbVars, aggVars>>

DmSpecInit == DbIdle /\ AggInit /\ DmInit

DmSpec == DmSpecInit /\ [][DmNext]_vars

(***************************************************************************)
(* Properties.                                                             *)
(***************************************************************************)

\* Number of input notifications on post q.
CountIn(q) == Cardinality({i \in 1..Len(aggIn) : aggIn[i].post = q})
InputPosts == {aggIn[i].post : i \in 1..Len(aggIn)}
OutPosts == {aggOut[i].post : i \in 1..Len(aggOut)}
FirstPos(q) == CHOOSE i \in 1..Len(aggIn) : aggIn[i].post = q /\ \A j \in 1..(i - 1) : aggIn[j].post # q
CommentsOn(q) == {i \in 1..Len(aggIn) : aggIn[i].post = q /\ aggIn[i].action = COMMENT}

\* C1 (original claim): two successive instant calls of one caller, with no
\* notification created in between, the second returns an empty list.
C1_Original ==
  (prevFreq = INSTANT /\ lastCall.freq = INSTANT) => lastCall.res = {}

\* C1 (amended): every notification an instant call returns is stamped
\* (emailSentAt.instant set) and no later sequential instant call returns
\* it again; a later call may still return notifications that were too
\* recent for the lookback interval at the earlier call.
C1_NoRepeatInstant ==
  /\ ~dup[INSTANT]
  /\ \A n \in retHist[INSTANT] : sent[n][INSTANT] # Null

C1_Witness ==
  /\ prevFreq = INSTANT /\ lastCall.freq = INSTANT
  /\ lastCall.res # {}
  /\ retHist[INSTANT] \ lastCall.res # {}

\* C2: for each digest tier f, every notification a call returned in its
\* digests is stamped for f and never returned again by a later call for
\* f; a stamp of tier f never changes the stamp of another tier.
C2_StampInv ==
  \A f \in DigestFreqs :
     /\ ~dup[f]
     /\ \A n \in retHist[f] : sent[n][f] # Null

Changed(n, g) == sent'[n][g] # sent[n][g]

C2_StampAct ==
  /\ \A n, m \in NotifIds, g, h \in Freqs : (Changed(n, g) /\ Changed(m, h)) => g = h
  /\ \A p \in Procs, n \in NotifIds, g \in Freqs :
        (pend'[p] # pend[p] /\ Changed(n, g)) => g = freq[p]

C2_DigestStamped == []C2_StampInv /\ [][C2_StampAct]_vars

C2_Witness ==
  /\ prevFreq \in DigestFreqs
  /\ lastCall.freq = prevFreq
  /\ retHist[prevFreq] \ lastCall.res # {}

\* C3: the aggregator returns at most 3 aggregates, one per distinct post,
\* ordered by total non-increasing, and they are posts with the largest
\* totals of the input.
C3_TopThree ==
  /\ Len(aggOut) <= 3
  /\ Len(aggOut) = IF Cardinality(InputPosts) < 3 THEN Cardinality(InputPosts) ELSE 3
  /\ OutPosts \subseteq InputPosts
  /\ \A i, j \in 1..Len(aggOut) :
        i < j => /\ aggOut[i].post # aggOut[j].post
                 /\ aggOut[i].counts.total >= aggOut[j].counts.total
  /\ \A q \in InputPosts \ OutPosts, i \in 1..Len(aggOut) : CountIn(q) <= aggOut[i].counts.total

C3_Witness ==
  /\ Cardinality(InputPosts) = 4
  /\ \E q \in InputPosts : CountIn(q) = 2 /\ FirstPos(q) > 3

\* C4: total = comment + like + share = number of input notifications on the post.
C4_Counts ==
  \A i \in 1..Len(aggOut) :
     LET c == aggOut[i].counts IN
     /\ c.total = c.comment + c.like + c.share
     /\ c.total = CountIn(aggOut[i].post)

C4_Witness ==
  \E i \in 1..Len(aggOut) :
     aggOut[i].counts.total = 3 /\ aggOut[i].counts.comment = 1 /\ aggOut[i].counts.like = 1

\* C5 (original claim): latest is null iff the post has no comment; else a
\* comment on the post with maximal createdAt, the later one in the input
\* on equal maximal createdAt.
C5_Original ==
  \A i \in 1..Len(aggOut) :
     LET q == aggOut[i].post
         l == aggOut[i].latest
     IN IF CommentsOn(q) = {} THEN l = 0
        ELSE /\ l \in CommentsOn(q)
             /\ \A j \in CommentsOn(q) : aggIn[j].createdAt <= aggIn[l].createdAt
             /\ \A j \in CommentsOn(q) : aggIn[j].createdAt = aggIn[l].createdAt => j <= l

\* C5 (amended): as C5_Original, but on equal maximal createdAt the
\* first such comment in the input is kept.
C5_LatestFirstMax ==
  \A i \in 1..Len(aggOut) :
     LET q == aggOut[i].post
         l == aggOut[i].latest
     IN IF CommentsOn(q) = {} THEN l = 0
        ELSE /\ l \in CommentsOn(q)
             /\ \A j \in CommentsOn(q) : aggIn[j].createdAt <= aggIn[l].createdAt
             /\ \A j \in CommentsOn(q) : aggIn[j].createdAt = aggIn[l].createdAt => l <= j

C5_Witness ==
  \E i \in 1..Len(aggOut) :
     \E j, k \in CommentsOn(aggOut[i].post) : j # k /\ aggIn[j].createdAt = aggIn[k].createdAt

\* C6: a triple is produced only for a thread where exactly one participant
\* has newMessages = 0 (the sender) and the other has newMessages > 0 (the
\* receiver); a thread failing that is skipped and, when the call returns,
\* every other qualifying thread has its triple.
Qualifies(t) ==
  /\ hasMsg[t]
  /\ \E i \in 1..2 : stale[t][i]
  /\ \E i \in 1..2 : status[t][i] # "blocked"
  /\ \E i \in 1..2 : nm[t][i] = 0 /\ nm[t][3 - i] > 0 /\ prefs[Participants[t][3 - i]] # "off"

C6_Pairs ==
  /\ \A k \in 1..Len(out) :
        LET r == out[k]
            t == r.thread
        IN \E i \in 1..2 : /\ nm[t][i] = 0 /\ nm[t][3 - i] > 0
                           /\ r.sender = Participants[t][i]
                           /\ r.receiver = Participants[t][3 - i]
  /\ dmStatus = "done" => \A t \in ThreadIds : Qualifies(t) => \E k \in 1..Len(out) : out[k].thread = t

C6_Witness ==
  /\ dmStatus = "done"
  /\ Len(out) >= 1
  /\ \E t \in ThreadIds : hasMsg[t] /\ nm[t][1] > 0 /\ nm[t][2] > 0
                          /\ \E j \in 1..2 : stale[t][j]
                          /\ \E k \in 1..2 : status[t][k] # "blocked"

\* C7 (claim): a call with a frequency outside the four tiers fails before
\* querying: no caller ever reaches the query with such a frequency.
C7_RejectUnknownFrequency ==
  \A p \in Procs : pc[p] = "updating" => freq[p] \in ValidFreqs

\* C8 (claim): a thread whose receiver user is missing is skipped; the call
\* never fails as a whole.
C8_NoWholeCallFailure == dmStatus # "error"

\* C9 (original claim): aggregates of equal total appear in the order in
\* which their post ids first appear in the input.
C9_Original ==
  \A i, j \in 1..Len(aggOut) :
     (i < j /\ aggOut[i].counts.total = aggOut[j].counts.total)
        => FirstPos(aggOut[i].post) < FirstPos(aggOut[j].post)

\* C9 (amended): among aggregates of equal total, posts whose id is an
\* array index come first in ascending numeric order, the others follow in
\* the order in which they first appear in the input.
C9_TieOrder ==
  \A i, j \in 1..Len(aggOut) :
     LET a == aggOut[i].post
         b == aggOut[j].post
     IN (i < j /\ aggOut[i].counts.total = aggOut[j].counts.total)
          => /\ (a \in IntLikePosts /\ b \in IntLikePosts) => a < b
             /\ b \in IntLikePosts => a \in IntLikePosts
             /\ (a \notin IntLikePosts /\ b \notin IntLikePosts) => FirstPos(a) < FirstPos(b)

C9_Witness ==
  \E i, j \in 1..Len(aggOut) :
     /\ i < j
     /\ aggOut[i].counts.total = aggOut[j].counts.total
     /\ aggOut[i].post \in IntLikePosts
     /\ FirstPos(aggOut[i].post) > FirstPos(aggOut[j].post)

\* C10: a notification is returned twice for a tier only when two calls of
\* that tier interleaved (one call's query read it while another call of
\* that tier had already fetched it and not yet stamped it); such a double
\* delivery is reachable.
C10_DupNeedsOverlap == \A f \in Freqs : dup[f] => overlap[f]

C10_Witness == dup[INSTANT]

====
